---------------------------- MODULE Spec2Model ----------------------------
(***************************************************************************)
(* internet-monitor (src/src/main.rs): a forever loop that pings a host,   *)
(* parses the average round-trip time out of ping's summary line and       *)
(* writes one sample per iteration to InfluxDB.                            *)
(*                                                                         *)
(* Text is a sequence of one-character strings.  A float is the pair       *)
(* <<m, s>> standing for m / 10^s with trailing fractional zeros removed,  *)
(* so "6", "6." and "6.0" denote the same number; the decimals used here   *)
(* are short enough that distinct pairs are distinct f64 values.           *)
(***************************************************************************)
EXTENDS Integers, Sequences, FiniteSets, TLC

(***************************************************************************)
(* Bounds of the model.                                                    *)
(***************************************************************************)
MaxTicks == 2
MaxInterval == 1
MaxOpTime == 1

(***************************************************************************)
(* Option<T>: None is the empty tuple, Some(v) the one-element tuple.      *)
(***************************************************************************)
None == << >>
Some(v) == << v >>

(***************************************************************************)
(* Characters and literals of the regular expression at main.rs:66.        *)
(***************************************************************************)
Digits == {"0", "1", "2", "3", "4", "5", "6", "7", "8", "9"}

DigitVal(c) ==
    CASE c = "0" -> 0 [] c = "1" -> 1 [] c = "2" -> 2 [] c = "3" -> 3
      [] c = "4" -> 4 [] c = "5" -> 5 [] c = "6" -> 6 [] c = "7" -> 7
      [] c = "8" -> 8 [] c = "9" -> 9

\* the character class [0-9.]
IsFieldChar(c) == c \in Digits \cup {"."}

LitRtt == <<"r", "t", "t">>
LitRoundTrip == <<"r", "o", "u", "n", "d", "-", "t", "r", "i", "p">>
LitEq == <<" ", "=", " ">>
LitMs == <<"m", "s">>

\* lit occurs in s starting at (1-based) index i
LitAt(s, i, lit) ==
    /\ i >= 1
    /\ i + Len(lit) - 1 <= Len(s)
    /\ \A k \in 1..Len(lit) : s[i + k - 1] = lit[k]

\* (?:rtt|round-trip)? : the label made optional
LabelEnd_optional(s, i) ==
    IF LitAt(s, i, <<"r", "t", "t">>) THEN i + 3
    ELSE IF LitAt(s, i, <<"r", "o", "u", "n", "d", "-", "t", "r", "i", "p">>)
         THEN i + 10
    ELSE i

\* (?:rtt|round-trip) at i: the index after the label, or 0 when neither
\* alternative matches there
LabelEnd(s, i) ==
    IF LitAt(s, i, LitRtt) THEN i + Len(LitRtt)
    ELSE IF LitAt(s, i, LitRoundTrip) THEN i + Len(LitRoundTrip)
    ELSE 0

\* [0-9.]+ at i, greedy: the index after the longest run of class
\* characters (i itself when the run is empty).  The next pattern element
\* is never a class character, so a shorter run never matches.
FieldEnd(s, i) ==
    i + Cardinality({e \in i..Len(s) : \A k \in i..e : IsFieldChar(s[k])})

Slice(s, from, to) == [k \in 1..(to - from) |-> s[from + k - 1]]

\* "([0-9.]+)/([0-9.]+)/ ... " at i, n fields separated by '/': the pairs
\* <<first, after>> of the fields' positions, or fewer than n pairs when
\* a field is empty or a '/' is missing
RECURSIVE FieldSpans(_, _, _)
FieldSpans(s, i, n) ==
    CHOOSE spans \in
        {IF e = i THEN << >>
         ELSE IF n = 1 THEN << <<i, e>> >>
         ELSE IF e <= Len(s) /\ s[e] = "/"
              THEN << <<i, e>> >> \o FieldSpans(s, e + 1, n - 1)
              ELSE << <<i, e>> >>
         : e \in {FieldEnd(s, i)}} : TRUE

\* " ?ms" at i
UnitAt(s, i) ==
    \/ LitAt(s, i, <<" ">>) /\ LitAt(s, i + 1, LitMs)
    \/ LitAt(s, i, LitMs)

\* " = ([0-9.]+)/([0-9.]+)/([0-9.]+)/([0-9.]+) ?ms" anchored at j:
\* whether it matches, and the four captured groups
TailAt(s, j) ==
    CHOOSE r \in
        {IF LitAt(s, j, LitEq) /\ Len(spans) = 4 /\ UnitAt(s, spans[4][2])
         THEN [ok |-> TRUE,
               groups |-> [g \in 1..4 |-> Slice(s, spans[g][1], spans[g][2])]]
         ELSE [ok |-> FALSE, groups |-> << >>]
         : spans \in {IF LitAt(s, j, LitEq)
                      THEN FieldSpans(s, j + Len(LitEq), 4) ELSE << >>}} : TRUE

\* ".*" from p up to (not including) j: '.' matches anything but a newline
DotStar(s, p, j) == \A k \in p..(j - 1) : s[k] # "\n"

Min(S) == CHOOSE x \in S : \A y \in S : x <= y
Max(S) == CHOOSE x \in S : \A y \in S : x >= y

\* the indices at which the tail can be anchored after a label ending
\* before p: ".*" covers p..j-1 and the tail matches at j
TailsFrom(s, p) ==
    {j \in p..Len(s) : DotStar(s, p, j) /\ TailAt(s, j).ok}

\* the groups of the match that starts with the label at i: ".*" is
\* greedy, so the tail is anchored at the largest index that lets the
\* whole pattern match
GroupsFrom(s, i) ==
    CHOOSE g \in {TailAt(s, Max(tails)).groups :
                    tails \in {TailsFrom(s, LabelEnd(s, i))}} : TRUE

\* Regex::captures (main.rs:66-67), leftmost-first: the match starts at the
\* smallest index where one exists
Captures(s) ==
    CHOOSE c \in
        {IF starts = {} THEN None ELSE Some(GroupsFrom(s, Min(starts)))
         : starts \in {{i \in 1..Len(s) :
                          /\ LabelEnd(s, i) # 0
                          /\ TailsFrom(s, LabelEnd(s, i)) # {}}}} : TRUE

(***************************************************************************)
(* str::parse::<f64> (main.rs:70) on a string of class characters: the     *)
(* accepted shapes are Digit+ | Digit+ '.' Digit* | Digit* '.' Digit+.     *)
(***************************************************************************)
\* the number written by the first n digits of ds
RECURSIVE DigitsValue(_, _)
DigitsValue(ds, n) ==
    IF n = 0 THEN 0 ELSE 10 * DigitsValue(ds, n - 1) + DigitVal(ds[n])

RECURSIVE Normalize(_, _)
Normalize(m, sc) ==
    IF sc > 0 /\ m % 10 = 0 THEN Normalize(m \div 10, sc - 1) ELSE << m, sc >>

IsDigit(c) == c \in Digits

\* a parse that reads the digits and overlooks misplaced dots
ParseF64_lenient(str) ==
    [ok |-> TRUE,
     val |-> Normalize(DigitsValue(SelectSeq(str, IsDigit),
                                   Len(SelectSeq(str, IsDigit))), 0)]

ParseF64(str) ==
    CHOOSE r \in
        {IF /\ \A k \in 1..Len(str) : IsFieldChar(str[k])
            /\ Cardinality(dots) <= 1
            /\ ds # << >>
         THEN [ok |-> TRUE,
               val |-> Normalize(DigitsValue(ds, Len(ds)),
                                 IF dots = {} THEN 0 ELSE Len(str) - Min(dots))]
         ELSE [ok |-> FALSE, val |-> << >>]
         : ds \in {SelectSeq(str, IsDigit)},
           dots \in {{k \in 1..Len(str) : str[k] = "."}}} : TRUE

(***************************************************************************)
(* Error values of measure_latency, by the message each carries.           *)
(***************************************************************************)
ErrJoin == "task failed to execute to completion"
ErrSpawn == "Failed to spawn ping command"
ErrPingFailed == "Ping command failed: "
ErrNumericFormat == "Failed to parse average latency time as float"
ErrNoMatch == "Failed to parse ping output"

Ok(v) == [ok |-> TRUE, val |-> v, err |-> << >>]
Err(e) == [ok |-> FALSE, val |-> << >>, err |-> e]

\* the first captured group taken for the average
ParseOutput_firstGroup(stdout) ==
    CHOOSE r \in
        {IF captures = None THEN Err(<<ErrNoMatch>>)
         ELSE IF ParseF64(captures[1][1]).ok
              THEN Ok(ParseF64(captures[1][1]).val)
              ELSE Err(<<ErrNumericFormat>>)
         : captures \in {Captures(stdout)}} : TRUE

\* main.rs:64-75: the parsing tail of measure_latency, on ping's stdout
ParseOutput(stdout) ==
    CHOOSE r \in
        {IF captures = None THEN Err(<<ErrNoMatch>>)
         ELSE IF ParseF64(captures[1][2]).ok
              THEN Ok(ParseF64(captures[1][2]).val)
              ELSE Err(<<ErrNumericFormat>>)
         : captures \in {Captures(stdout)}} : TRUE

\* the failure message formatted without the process's stderr
MeasureLatency_dropStderr(res) ==
    IF res.kind = "join_err" THEN Err(<<ErrJoin>>)
    ELSE IF res.kind = "spawn_err" THEN Err(<<ErrSpawn>>)
    ELSE IF res.code # 0 THEN Err(<<ErrPingFailed, "">>)
    ELSE ParseOutput(res.stdout)

\* the output parsed without looking at the exit status
MeasureLatency_ignoreStatus(res) ==
    IF res.kind = "join_err" THEN Err(<<ErrJoin>>)
    ELSE IF res.kind = "spawn_err" THEN Err(<<ErrSpawn>>)
    ELSE IF res.code # 0 /\ ~ParseOutput(res.stdout).ok
         THEN Err(<<ErrPingFailed, res.stderr>>)
    ELSE ParseOutput(res.stdout)

\* main.rs:48-76: what measure_latency returns for the outcome of the
\* blocking worker.  "join_err": awaiting the JoinHandle failed (line 56,
\* first '?'); "spawn_err": Command::output returned Err (line 57);
\* "exited": the process ran and left a status, stdout and stderr.
MeasureLatency(res) ==
    IF res.kind = "join_err" THEN Err(<<ErrJoin>>)
    ELSE IF res.kind = "spawn_err" THEN Err(<<ErrSpawn>>)
    ELSE IF res.code # 0 THEN Err(<<ErrPingFailed, res.stderr>>)
    ELSE ParseOutput(res.stdout)

MeasurementType == "internet_performance"

\* a failed measurement recorded as the number zero
LatencyOf_sentinel(r) == IF r.ok THEN Some(r.val) ELSE Some(<<0, 0>>)

\* main.rs:81-90: the match on measure_latency's result
LatencyOf(r) == IF r.ok THEN Some(r.val) ELSE None

\* measure_latency(..).await? : the measurement's error handed to the caller
RunMeasurements_propagate(r, now) ==
    IF r.ok
    THEN [ok |-> TRUE,
          val |-> [time |-> now,
                   measurement_type |-> "internet_performance",
                   latency_ms |-> Some(r.val)],
          err |-> << >>]
    ELSE [ok |-> FALSE, val |-> << >>, err |-> r.err]

\* the sample's time left at the epoch
RunMeasurements_epoch(r, now) ==
    [ok |-> TRUE,
     val |-> [time |-> 0,
              measurement_type |-> "internet_performance",
              latency_ms |-> IF r.ok THEN Some(r.val) ELSE None],
     err |-> << >>]

\* a panic of the blocking worker handed on to the caller
RunMeasurements_joinError(r, now) ==
    IF ~r.ok /\ r.err = <<ErrJoin>>
    THEN [ok |-> FALSE, val |-> << >>, err |-> r.err]
    ELSE [ok |-> TRUE,
          val |-> [time |-> now,
                   measurement_type |-> "internet_performance",
                   latency_ms |-> IF r.ok THEN Some(r.val) ELSE None],
          err |-> << >>]

\* main.rs:78-97: Result<InternetMetrics> of run_measurements, given the
\* result of measure_latency and the reading of Utc::now()
RunMeasurements(r, now) ==
    [ok |-> TRUE,
     val |-> [time |-> now,
              measurement_type |-> MeasurementType,
              latency_ms |-> LatencyOf(r)],
     err |-> << >>]

\* main.rs:86-88: what run_measurements logs at warning severity
MeasureWarnings(r) ==
    IF r.ok THEN << >>
    ELSE << [level |-> "warn", msg |-> <<"Failed to measure latency: ">> \o r.err] >>

(***************************************************************************)
(* Probe outputs.  A summary text is rendered from a descriptor: lines     *)
(* before, a label, the rest of the label, " = A/B/C/D", an optional       *)
(* space, the unit, and lines after.                                       *)
(***************************************************************************)
FieldText(f) ==
    CASE f = "2" -> <<"2">>
      [] f = "6.0" -> <<"6", ".", "0">>
      [] f = "15.45" -> <<"1", "5", ".", "4", "5">>
      [] f = ".5" -> <<".", "5">>
      [] f = "3." -> <<"3", ".">>
      [] f = "." -> <<".">>
      [] f = "1.2.3" -> <<"1", ".", "2", ".", "3">>
      [] f = "x" -> <<"x">>
      [] f = "1e3" -> <<"1", "e", "3">>

\* the number a well-formed field denotes, written down independently of
\* ParseF64
FieldValue(f) ==
    CASE f = "2" -> <<2, 0>>
      [] f = "6.0" -> <<6, 0>>
      [] f = "15.45" -> <<1545, 2>>
      [] f = ".5" -> <<5, 1>>
      [] f = "3." -> <<3, 0>>

NumericFields == {"2", "6.0", "15.45", ".5", "3."}
\* made of the characters [0-9.] only, yet no float
MalformedFields == {".", "1.2.3"}
\* holding a character outside [0-9.]
ForeignFields == {"x", "1e3"}
AllFields == NumericFields \cup MalformedFields \cup ForeignFields

LabelText(l) ==
    CASE l = "rtt" -> LitRtt
      [] l = "round-trip" -> LitRoundTrip
      [] l = "none" -> <<"t", "i", "m", "e">>

Labels == {"rtt", "round-trip", "none"}

PreText(p) ==
    CASE p = "empty" -> << >>
      [] p = "header" -> <<"P", "I", "N", "G", " ", "h", "\n">>
      [] p = "eq" -> <<"x", " ", "=", " ", "1", "/", "1", "/", "1", "\n">>
      [] p = "marker" -> <<"r", "t", "t", " ", "h", "\n">>

MidText(m) ==
    CASE m = "empty" -> << >>
      [] m = "names" -> <<" ", "m", "i", "n", "/", "a", "v", "g">>
      [] m = "eq" -> <<" ", "x", " ", "=", " ", "1", "/", "2">>

PostText(p) ==
    CASE p = "empty" -> << >>
      [] p = "newline" -> <<"\n">>
      [] p = "second" -> <<"\n", "r", "t", "t", " ", "=", " ",
                           "9", "/", "8", "/", "7", "/", "6", " ", "m", "s">>

Render(d) ==
    PreText(d.pre) \o LabelText(d.label) \o MidText(d.mid) \o LitEq
      \o FieldText(d.a) \o <<"/">> \o FieldText(d.b) \o <<"/">>
      \o FieldText(d.c) \o <<"/">> \o FieldText(d.d)
      \o (IF d.sp THEN <<" ">> ELSE << >>) \o LitMs \o PostText(d.post)

\* the descriptors the parser is exercised on
Descriptors ==
    [pre : {"empty", "header", "eq", "marker"}, label : Labels,
     mid : {"empty", "names", "eq"},
     a : {"2", "15.45"}, b : AllFields, c : {"3."}, d : {".5"},
     sp : BOOLEAN, post : {"empty", "newline", "second"}]

\* the few the scheduler is exercised on
LoopDescriptors ==
    {d \in Descriptors :
        /\ d.pre = "header" /\ d.mid = "names" /\ d.a = "2" /\ d.sp
        /\ d.post = "newline"
        /\ d.b \in {"15.45", "1.2.3"}
        /\ d.label \in {"rtt", "none"}}

Stderrs == {"", "unknown host"}

Exited(code, out, err) ==
    [kind |-> "exited", code |-> code, stdout |-> out, stderr |-> err]
JoinFailed == [kind |-> "join_err", code |-> 0, stdout |-> << >>, stderr |-> ""]
SpawnFailed == [kind |-> "spawn_err", code |-> 0, stdout |-> << >>, stderr |-> ""]

\* a text of LoopDescriptors, by its label and second field
LoopText(label, b) ==
    Render(CHOOSE d \in LoopDescriptors : d.label = label /\ d.b = b)

\* the outcomes of one run of the blocking worker (main.rs:50-56) the loop
\* is exercised on
ProbeOutcomes ==
    {JoinFailed, SpawnFailed,
     Exited(1, LoopText("rtt", "15.45"), "unknown host"),
     Exited(0, LoopText("rtt", "15.45"), ""),
     Exited(0, LoopText("rtt", "1.2.3"), ""),
     Exited(0, LoopText("none", "15.45"), "")}

(***************************************************************************)
(* The process.                                                            *)
(*   args         the parsed command line (interval, optional credentials, *)
(*                host)                                                    *)
(*   pc           where the main task stands                               *)
(*   auth         whether with_auth was applied to the client              *)
(*   iteration    the loop counter                                         *)
(*   clock        wall-clock time, in seconds                              *)
(*   busy         seconds spent so far waiting for the connectivity check, *)
(*                the probe and the writes                                 *)
(*   wakeAt       the deadline of the pending time::sleep                  *)
(*   worker       the spawn_blocking task: idle, running, or finished with *)
(*                its result                                               *)
(*   launched     the ping commands spawned so far, each with the          *)
(*                iteration that spawned it and the time it was spawned    *)
(*   sinkInFlight requests pending on the InfluxDB client                  *)
(*   pings        connectivity checks issued, and how the last one ended   *)
(*   submitted    the write queries issued, with iteration and outcome     *)
(*   logged       the warn!/error! events emitted by the latest step       *)
(*   probed       history: the worker's outcome behind the sample whose    *)
(*                write is pending (None otherwise)                        *)
(***************************************************************************)
Last(seq) == seq[Len(seq)]

VARIABLES args, pc, auth, iteration, clock, busy, wakeAt, worker,
          launched, sinkInFlight, pings, submitted, logged, probed

vars == << args, pc, auth, iteration, clock, busy, wakeAt, worker,
           launched, sinkInFlight, pings, submitted, logged, probed >>

\* the argument "4" of ping -c
ProbeCount == 4

Idle == [state |-> "idle", result |-> << >>]
Running == [state |-> "running", result |-> << >>]
Finished(res) == [state |-> "finished", result |-> <<res>>]

Credentials == {None, Some("secret")}

ArgsSet ==
    [interval : 0..MaxInterval,
     influxdb_username : Credentials,
     influxdb_password : Credentials,
     latency_url : {"google.com"}]

\* main.rs:100-104: the process has parsed its arguments
Init ==
    /\ args \in ArgsSet
    /\ pc = "start"
    /\ auth = FALSE
    /\ iteration = 0
    /\ clock = 0
    /\ busy = 0
    /\ wakeAt = 0
    /\ worker = Idle
    /\ launched = << >>
    /\ sinkInFlight = 0
    /\ pings = [issued |-> 0, last |-> "none"]
    /\ submitted = << >>
    /\ logged = << >>
    /\ probed = None

\* authentication set up as soon as one credential is given
WithAuth_either(username, password) == username # None \/ password # None

\* main.rs:114-117: with_auth only when both credentials are given
WithAuth(username, password) == username # None /\ password # None

\* main.rs:105-120: build the client and issue the connectivity check
Startup ==
    /\ pc = "start"
    /\ auth' = WithAuth(args.influxdb_username, args.influxdb_password)
    /\ pings' = [pings EXCEPT !.issued = @ + 1]
    /\ sinkInFlight' = sinkInFlight + 1
    /\ logged' = << >>
    /\ pc' = "await_ping"
    /\ UNCHANGED << probed, args, iteration, clock, busy, wakeAt, worker, launched,
                    submitted >>

\* main.rs:120-123: what the match on the connectivity check logs
PingWarnings(ok) ==
    IF ok THEN << >>
    ELSE << [level |-> "warn", msg |-> <<"Could not ping InfluxDB">>] >>

\* a failed connectivity check ends the process
AfterPing_fatal(ok) == IF ok THEN "loop_top" ELSE "exited"

\* main.rs:120-126: where the main task stands once the connectivity check
\* has returned
AfterPing(ok) == "loop_top"

\* main.rs:120-126: the connectivity check returns, Ok or Err
PingDone ==
    /\ pc = "await_ping"
    /\ \E ok \in BOOLEAN :
          /\ logged' = PingWarnings(ok)
          /\ pings' = [pings EXCEPT !.last = IF ok THEN "ok" ELSE "err"]
          /\ pc' = AfterPing(ok)
    /\ sinkInFlight' = sinkInFlight - 1
    /\ iteration' = 0
    /\ UNCHANGED << probed, args, auth, clock, busy, wakeAt, worker, launched,
                    submitted >>

\* main.rs:126: iteration is an i32 (the integer literal's fallback type)
I32Max == 2147483647

\* main.rs:128: iteration += 1 on an i32.  At i32::MAX the addition
\* overflows: a build with overflow checks (the dev profile) panics, a build
\* without them (the release profile) wraps around to i32::MIN.
IncrementI32(n) ==
    IF n = I32Max
    THEN {[panic |-> TRUE, val |-> n], [panic |-> FALSE, val |-> (-I32Max) - 1]}
    ELSE {[panic |-> FALSE, val |-> n + 1]}

\* main.rs:127-131, 78-81, 48-56: count the iteration, enter
\* run_measurements and measure_latency, hand ping to a blocking worker
\* and await it; a panic of the increment unwinds out of main and ends the
\* process.  MaxTicks probes are launched in all.
StartTick ==
    /\ pc = "loop_top"
    /\ Len(launched) < MaxTicks
    /\ \E inc \in IncrementI32(iteration) :
          IF inc.panic
          THEN /\ pc' = "panicked"
               /\ UNCHANGED << iteration, worker, launched >>
          ELSE /\ iteration' = inc.val
               /\ worker' = Running
               /\ launched' = Append(launched, [iteration |-> inc.val,
                                                count |-> ProbeCount,
                                                host |-> args.latency_url,
                                                at |-> clock])
               /\ pc' = "await_probe"
    /\ logged' = << >>
    /\ UNCHANGED << probed, args, auth, clock, busy, wakeAt, sinkInFlight, pings,
                    submitted >>

\* main.rs:50-56: the blocking worker ends, with any outcome
ProbeExit ==
    /\ worker.state = "running"
    /\ \E res \in ProbeOutcomes : worker' = Finished(res)
    /\ UNCHANGED << probed, args, pc, auth, iteration, clock, busy, wakeAt,
                    launched, sinkInFlight, pings, submitted, logged >>

\* the interval taken for milliseconds
SleepDeadline_millis(now, interval) == now + (interval \div 1000)

\* main.rs:152: the deadline of time::sleep(interval) started now
SleepDeadline(now, interval) == now + interval

\* a failed measurement spawns ping again within the iteration
MeasureDone_retry ==
    /\ pc = "await_probe"
    /\ worker.state = "finished"
    /\ \E r \in {MeasureLatency(worker.result[1])} :
       \E m \in {RunMeasurements(r, clock)} :
           IF r.ok
           THEN /\ submitted' = Append(submitted, [iteration |-> iteration,
                                                   metrics |-> m.val,
                                                   result |-> "pending"])
                /\ sinkInFlight' = sinkInFlight + 1
                /\ logged' = << >>
                /\ pc' = "await_write"
                /\ probed' = Some(worker.result[1])
                /\ worker' = Idle
                /\ UNCHANGED launched
           ELSE /\ logged' = MeasureWarnings(r)
                /\ launched' = Append(launched, Last(launched))
                /\ worker' = Running
                /\ UNCHANGED << submitted, sinkInFlight, pc, probed >>
    /\ UNCHANGED << args, auth, iteration, clock, busy, wakeAt, pings >>

\* main.rs:56-97, 131-152: the awaited worker has finished; finish
\* measure_latency and run_measurements, then either issue the write query
\* (Ok) or log and go to sleep (Err)
MeasureDone ==
    /\ pc = "await_probe"
    /\ worker.state = "finished"
    /\ \E r \in {MeasureLatency(worker.result[1])} :
       \E m \in {RunMeasurements(r, clock)} :
           IF m.ok
           THEN /\ submitted' = Append(submitted, [iteration |-> iteration,
                                                   metrics |-> m.val,
                                                   result |-> "pending"])
                /\ sinkInFlight' = sinkInFlight + 1
                /\ logged' = MeasureWarnings(r)
                /\ pc' = "await_write"
                /\ UNCHANGED wakeAt
           ELSE /\ logged' = MeasureWarnings(r)
                               \o << [level |-> "error",
                                      msg |-> <<"Failed to run measurements: ">>
                                                \o m.err] >>
                /\ wakeAt' = SleepDeadline(clock, args.interval)
                /\ pc' = "sleeping"
                /\ UNCHANGED << submitted, sinkInFlight >>
    /\ probed' = Some(worker.result[1])
    /\ worker' = Idle
    /\ UNCHANGED << args, auth, iteration, clock, busy, launched, pings >>

\* main.rs:134-140: what the match on the write's result logs
WriteErrors(ok) ==
    IF ok THEN << >>
    ELSE << [level |-> "error", msg |-> <<"Failed to write metrics to InfluxDB">>] >>

\* a failed write ends the process
AfterWrite_exitOnError(ok) == IF ok THEN "sleeping" ELSE "exited"

\* main.rs:134-152: where the main task stands once the write has returned
AfterWrite(ok) == "sleeping"

\* a failed write is issued again at once
WriteDone_retry ==
    /\ pc = "await_write"
    /\ \E ok \in BOOLEAN :
          /\ submitted' =
                IF ok THEN [submitted EXCEPT ![Len(submitted)].result = "ok"]
                ELSE Append([submitted EXCEPT ![Len(submitted)].result = "err"],
                            [submitted[Len(submitted)] EXCEPT !.result = "pending"])
          /\ logged' = IF ok THEN << >>
                       ELSE << [level |-> "error",
                                msg |-> <<"Failed to write metrics to InfluxDB">>] >>
          /\ pc' = IF ok THEN "sleeping" ELSE "await_write"
          /\ sinkInFlight' = IF ok THEN sinkInFlight - 1 ELSE sinkInFlight
          /\ probed' = IF ok THEN None ELSE probed
    /\ wakeAt' = clock + args.interval
    /\ UNCHANGED << args, auth, iteration, clock, busy, worker, launched,
                    pings >>

\* main.rs:134-152: the write query returns Ok or Err; log, then sleep
WriteDone ==
    /\ pc = "await_write"
    /\ \E ok \in BOOLEAN :
          /\ submitted' = [submitted EXCEPT ![Len(submitted)].result =
                              IF ok THEN "ok" ELSE "err"]
          /\ logged' = WriteErrors(ok)
          /\ pc' = AfterWrite(ok)
    /\ sinkInFlight' = sinkInFlight - 1
    /\ wakeAt' = SleepDeadline(clock, args.interval)
    /\ probed' = None
    /\ UNCHANGED << args, auth, iteration, clock, busy, worker, launched,
                    pings >>

\* the loop is left after the sleep
WakeUp_return ==
    /\ pc = "sleeping"
    /\ clock >= wakeAt
    /\ logged' = << >>
    /\ pc' = "exited"
    /\ UNCHANGED << probed, args, auth, iteration, clock, busy, wakeAt, worker,
                    launched, sinkInFlight, pings, submitted >>

\* the sleep is not awaited
WakeUp_early ==
    /\ pc = "sleeping"
    /\ logged' = << >>
    /\ pc' = "loop_top"
    /\ UNCHANGED << probed, args, auth, iteration, clock, busy, wakeAt, worker,
                    launched, sinkInFlight, pings, submitted >>

\* main.rs:152-155, 127: the sleep's deadline has passed; back to the top
\* of the loop
WakeUp ==
    /\ pc = "sleeping"
    /\ clock >= wakeAt
    /\ logged' = << >>
    /\ pc' = "loop_top"
    /\ UNCHANGED << probed, args, auth, iteration, clock, busy, wakeAt, worker,
                    launched, sinkInFlight, pings, submitted >>

\* a second passes while the main task sleeps
SleepSecond ==
    /\ pc = "sleeping"
    /\ clock < wakeAt
    /\ clock' = clock + 1
    /\ UNCHANGED << probed, args, pc, auth, iteration, busy, wakeAt, worker,
                    launched, sinkInFlight, pings, submitted, logged >>

\* a second passes while the operation the main task awaits (connectivity
\* check, probe, write) is pending; MaxOpTime such seconds in all
BusySecond ==
    /\ pc \in {"await_ping", "await_write"} \/ worker.state = "running"
    /\ busy < MaxOpTime
    /\ clock' = clock + 1
    /\ busy' = busy + 1
    /\ UNCHANGED << probed, args, pc, auth, iteration, wakeAt, worker, launched,
                    sinkInFlight, pings, submitted, logged >>

Next ==
    \/ Startup
    \/ PingDone
    \/ StartTick
    \/ ProbeExit
    \/ MeasureDone
    \/ WriteDone
    \/ WakeUp
    \/ SleepSecond
    \/ BusySecond

Spec == Init /\ [][Next]_vars

(***************************************************************************)
(* Liveness: the runtime resumes the main task whenever what it awaits is  *)
(* ready, the connectivity check, every probe and every write return, and  *)
(* time passes while the task sleeps.  Nothing obliges time to pass while  *)
(* an operation is pending.                                                *)
(***************************************************************************)
Progress ==
    \/ Startup
    \/ PingDone
    \/ StartTick
    \/ ProbeExit
    \/ MeasureDone
    \/ WriteDone
    \/ WakeUp
    \/ SleepSecond

LiveSpec == Spec /\ WF_vars(Progress)

(***************************************************************************)
(* One measurement on any output: the first iteration's worker has just    *)
(* finished, with an outcome drawn from every rendered descriptor.         *)
(***************************************************************************)
CycleOutcomes ==
    {JoinFailed, SpawnFailed}
      \cup {Exited(0, Render(d), "") : d \in Descriptors}
      \cup {Exited(1, Render(d), "unknown host") : d \in Descriptors}
      \cup {Exited(1, << >>, e) : e \in Stderrs}
      \cup {Exited(0, << >>, "")}

CycleInit ==
    /\ args \in {a \in ArgsSet : /\ a.influxdb_username = None
                                /\ a.influxdb_password = None}
    /\ pc = "await_probe"
    /\ auth = FALSE
    /\ iteration = 1
    /\ clock = 0
    /\ busy = 0
    /\ wakeAt = 0
    /\ worker \in {Finished(res) : res \in CycleOutcomes}
    /\ launched = << [iteration |-> 1, count |-> ProbeCount,
                      host |-> args.latency_url, at |-> 0] >>
    /\ sinkInFlight = 0
    /\ pings = [issued |-> 1, last |-> "ok"]
    /\ submitted = << >>
    /\ logged = << >>
    /\ probed = None

CycleNext == MeasureDone \/ WriteDone

CycleSpec == CycleInit /\ [][CycleNext]_vars

(***************************************************************************)
(* The loop near the end of the counter's range: the process has been      *)
(* through I32Max - 1 iterations and stands at the top of the loop.  The   *)
(* histories launched and submitted are kept from this state on.           *)
(***************************************************************************)
OverflowInit ==
    /\ args \in ArgsSet
    /\ pc = "loop_top"
    /\ auth = WithAuth(args.influxdb_username, args.influxdb_password)
    /\ iteration = I32Max - 1
    /\ clock = 0
    /\ busy = 0
    /\ wakeAt = 0
    /\ worker = Idle
    /\ launched = << >>
    /\ sinkInFlight = 0
    /\ pings \in {[issued |-> 1, last |-> l] : l \in {"ok", "err"}}
    /\ submitted = << >>
    /\ logged = << >>
    /\ probed = None

OverflowNext ==
    \/ StartTick
    \/ ProbeExit
    \/ MeasureDone
    \/ WriteDone
    \/ WakeUp
    \/ SleepSecond
    \/ BusySecond

OverflowSpec == OverflowInit /\ [][OverflowNext]_vars

OverflowLiveSpec == OverflowSpec /\ WF_vars(Progress)


(***************************************************************************)
(* Properties.                                                             *)
(***************************************************************************)
LoopPcs == {"loop_top", "await_probe", "await_write", "sleeping"}

\* C1: run_measurements is total: whatever the worker's outcome (join
\* failure, spawn failure, nonzero exit, zero exit) and whatever the parse
\* makes of the output, the cycle hands the scheduler Ok with a sample: the
\* iteration's sample is submitted, and the scheduler's branch for an error
\* of run_measurements logs nothing.
C1_CycleTotal ==
    /\ pc \in {"await_write", "sleeping"} =>
          /\ Len(submitted) = iteration
          /\ Last(submitted).iteration = iteration
          /\ Last(submitted).metrics.measurement_type = MeasurementType
          /\ Last(submitted).metrics.time \in 0..clock
    /\ pc = "await_write" => probed # None
    /\ \A k \in 1..Len(logged) :
          logged[k].msg[1] # "Failed to run measurements: "

C1_Witness ==
    /\ pc = "await_write"
    /\ probed = Some(JoinFailed)
    /\ Len(submitted) = 2
    /\ submitted[1].metrics.latency_ms # None
    /\ submitted[2].metrics.latency_ms = None

\* the measurement behind the pending sample succeeded: the probe was
\* spawned, exited with status zero, its output matched the pattern and the
\* second group parsed as a float
Succeeded(res) ==
    /\ res.kind = "exited"
    /\ res.code = 0
    /\ Captures(res.stdout) # None
    /\ ParseF64(Captures(res.stdout)[1][2]).ok

\* C2: in every sample the cycle produces, latency_ms is present exactly
\* when the measurement succeeded, it is then the parsed second field, and
\* a failed measurement is recorded as None, never as a number.
C2_LatencyIffSuccess ==
    pc = "await_write" =>
       LET res == probed[1]
           lat == Last(submitted).metrics.latency_ms
       IN  /\ lat # None <=> Succeeded(res)
           /\ Succeeded(res) =>
                 lat = Some(ParseF64(Captures(res.stdout)[1][2]).val)
           /\ ~Succeeded(res) => lat = None

C2_Witness ==
    /\ pc = "await_write"
    /\ probed[1].kind = "exited"
    /\ probed[1].code = 0
    /\ Last(submitted).metrics.latency_ms = Some(<<1545, 2>>)

\* C3: a write that fails changes nothing in the scheduling: whichever way
\* the write ends, the task next sleeps until exactly the configured
\* interval after the write returned, in the same iteration; the sleep ends
\* at its deadline at the top of the loop, and the top of the loop starts
\* the next iteration.
C3_WriteFailureKeepsSchedule ==
    [][/\ (pc = "await_write" /\ pc' # pc) =>
             /\ pc' = "sleeping"
             /\ wakeAt' = clock + args.interval
             /\ clock' = clock
             /\ iteration' = iteration
             /\ sinkInFlight' = 0
             /\ Last(submitted').result \in {"ok", "err"}
       /\ (pc = "sleeping" /\ pc' # pc) =>
             /\ pc' = "loop_top"
             /\ clock = wakeAt
             /\ iteration' = iteration
       /\ (pc = "loop_top" /\ pc' # pc) =>
             /\ pc' = "await_probe"
             /\ iteration' = iteration + 1
             /\ worker'.state = "running"]_vars

C3_Witness ==
    /\ iteration = 2
    /\ pc = "await_write"
    /\ submitted[1].result = "err"
    /\ args.interval = 1
    /\ clock >= 1

\* C4: the scheduler has no terminal state and every iteration is followed
\* by the next, whatever the probe, the parse and the write come to (the
\* model stops counting at MaxTicks, the one place where it stops).
C4_RunsForever ==
    /\ [](pc \in {"start", "await_ping"} \cup LoopPcs)
    /\ [](~(pc = "loop_top" /\ Len(launched) = MaxTicks) => ENABLED Progress)
    /\ \A n \in 1..(MaxTicks - 1) :
          (iteration = n) ~> (iteration = n + 1 /\ pc = "await_probe")

C4_Witness ==
    /\ iteration = 2
    /\ pc = "await_probe"
    /\ submitted[1].result = "err"
    /\ submitted[1].metrics.latency_ms = None

\* C5: iterations never overlap: at most one probe and at most one request
\* on the sink are pending, never both; while the probe of an iteration
\* runs, every earlier probe has returned, every earlier write has ended
\* and the previous sleep's deadline has passed.
C5_NoOverlap ==
    /\ sinkInFlight \in {0, 1}
    /\ sinkInFlight = 1 <=> pc \in {"await_ping", "await_write"}
    /\ sinkInFlight = 1 => worker = Idle
    /\ Len(launched) = iteration
    /\ worker.state # "idle" =>
          /\ pc = "await_probe"
          /\ Len(submitted) = iteration - 1
          /\ \A k \in 1..Len(submitted) : submitted[k].result # "pending"
          /\ iteration > 1 => clock >= wakeAt

C5_Witness ==
    /\ iteration = 2
    /\ worker.state = "running"
    /\ args.interval = 1
    /\ busy = 1
    /\ wakeAt = 2

C6_Order ==
    /\ \A k \in 1..Len(submitted) : submitted[k].iteration = k
    /\ Len(submitted) = iteration - (IF pc = "await_probe" THEN 1 ELSE 0)
    /\ \A k \in 1..(Len(submitted) - 1) : submitted[k].result # "pending"

C6_Step ==
    /\ \A k \in 1..Len(submitted) :
          /\ k <= Len(submitted')
          /\ submitted'[k].metrics = submitted[k].metrics
          /\ submitted[k].result # "pending" => submitted'[k] = submitted[k]
    /\ Len(submitted') # Len(submitted) =>
          /\ Len(submitted') = Len(submitted) + 1
          /\ pc = "await_probe"
          /\ Last(submitted').iteration = iteration
          /\ Last(submitted').metrics.time = clock
          /\ Last(submitted').metrics.latency_ms =
                LatencyOf(MeasureLatency(worker.result[1]))

\* C6: every iteration submits exactly one sample, the one it has just
\* built, and submissions follow the iterations' order; a submitted sample
\* is never changed or submitted again, whether its write succeeded or
\* failed.
C6_OneSamplePerTick == []C6_Order /\ [][C6_Step]_vars

C6_Witness ==
    /\ pc = "sleeping"
    /\ Len(submitted) = 2
    /\ submitted[1].result = "err"
    /\ submitted[2].result = "ok"
    /\ submitted[1].metrics.latency_ms = Some(<<1545, 2>>)
    /\ submitted[2].metrics.latency_ms = None

\* C7: the connectivity check is issued exactly once, before the first
\* iteration, and its failure is not fatal: after a failed check the task
\* is in the loop, and each iteration that got as far issued its write.
C7_PingOnceNonFatal ==
    /\ pings.issued = (IF pc = "start" THEN 0 ELSE 1)
    /\ pings.last = "none" <=> pc \in {"start", "await_ping"}
    /\ pings.last = "none" => iteration = 0 /\ submitted = << >>
    /\ pings.last = "err" =>
          /\ pc \in LoopPcs
          /\ pc \in {"await_write", "sleeping"} => Len(submitted) = iteration

C7_Witness ==
    /\ pings.last = "err"
    /\ iteration = 2
    /\ pc = "await_write"
    /\ Len(submitted) = 2


(***************************************************************************)
(* The parser against the descriptors its input was rendered from.         *)
(***************************************************************************)
RenderTable == {<<Render(d), d>> : d \in Descriptors}

DescribedBy(text) == {p[2] : p \in {q \in RenderTable : q[1] = text}}

Contains(s, lit) == \E i \in 1..Len(s) : LitAt(s, i, lit)

Markers == {"rtt", "round-trip"}

\* the sample's write is pending and the probe behind it exited with zero
ParsedOutput ==
    /\ pc = "await_write"
    /\ probed[1].kind = "exited"
    /\ probed[1].code = 0

MeasureWarning(e) ==
    << [level |-> "warn", msg |-> <<"Failed to measure latency: ", e>>] >>

\* C8: for an output whose first line carrying a marker is the summary
\* "rtt ... = A/B/C/D ms" or "round-trip ... = A/B/C/D ms" with four numeric
\* fields, with or without the space before "ms", whatever lines come
\* before and after, the latency is the number B denotes.
C8_ParserReturnsAverage ==
    ParsedOutput =>
       \A d \in DescribedBy(probed[1].stdout) :
          (d.label \in Markers /\ {d.a, d.b, d.c, d.d} \subseteq NumericFields)
             => /\ Last(submitted).metrics.latency_ms = Some(FieldValue(d.b))
                /\ logged = << >>

C8_Witness ==
    /\ ParsedOutput
    /\ probed[1].stdout =
          Render([pre |-> "header", label |-> "round-trip", mid |-> "names",
                  a |-> "2", b |-> "6.0", c |-> "3.", d |-> ".5",
                  sp |-> FALSE, post |-> "second"])
    /\ Last(submitted).metrics.latency_ms = Some(<<6, 0>>)

\* C9: for an output containing neither "rtt" nor "round-trip" the parser
\* fails with the no-match error, and the sample's latency is absent.
C9_NoMarkerNoMatch ==
    (/\ ParsedOutput
     /\ ~Contains(probed[1].stdout, LitRtt)
     /\ ~Contains(probed[1].stdout, LitRoundTrip))
       => /\ logged = MeasureWarning(ErrNoMatch)
          /\ Last(submitted).metrics.latency_ms = None

C9_Witness ==
    /\ ParsedOutput
    /\ probed[1].stdout =
          Render([pre |-> "eq", label |-> "none", mid |-> "names",
                  a |-> "2", b |-> "15.45", c |-> "3.", d |-> ".5",
                  sp |-> TRUE, post |-> "newline"])
    /\ logged = MeasureWarning(ErrNoMatch)
    /\ Last(submitted).metrics.latency_ms = None

\* C10 as stated: an output of the shape "<label> = A/B/C/D ms" whose second
\* field is no number fails with the numeric-format error.
C10_AsStated ==
    ParsedOutput =>
       \A d \in DescribedBy(probed[1].stdout) :
          (/\ d.label \in Markers
           /\ d.post # "second"
           /\ d.b \in MalformedFields \cup {"x"})
             => logged = MeasureWarning(ErrNumericFormat)

\* C10, amended: when the second field is made of digits and dots but is
\* no float, the parser fails with the numeric-format error; when it holds
\* any other character the line does not match the pattern and, no other
\* line matching, the parser fails with the no-match error.  The two
\* errors differ, and the latency is absent in both cases.
C10_NumericFormat ==
    ParsedOutput =>
       \A d \in DescribedBy(probed[1].stdout) :
          d.label \in Markers =>
             /\ d.b \in MalformedFields =>
                   /\ logged = MeasureWarning(ErrNumericFormat)
                   /\ logged # MeasureWarning(ErrNoMatch)
                   /\ Last(submitted).metrics.latency_ms = None
             /\ (d.b \in ForeignFields /\ d.post # "second") =>
                   /\ logged = MeasureWarning(ErrNoMatch)
                   /\ Last(submitted).metrics.latency_ms = None

C10_Witness ==
    /\ ParsedOutput
    /\ probed[1].stdout =
          Render([pre |-> "empty", label |-> "rtt", mid |-> "names",
                  a |-> "2", b |-> "1.2.3", c |-> "3.", d |-> ".5",
                  sp |-> TRUE, post |-> "empty"])
    /\ logged = MeasureWarning(ErrNumericFormat)

(***************************************************************************)
(* The probe runner's failures, timing, launches and credentials.          *)
(***************************************************************************)
\* the warning run_measurements logs for a nonzero exit with this stderr
PingFailedWarning(stderr) ==
    << [level |-> "warn",
        msg |-> <<"Failed to measure latency: ", "Ping command failed: ", stderr>>] >>

\* C11: a probe that could not be spawned and a probe that exited with a
\* nonzero status come back as two different error values, the second
\* carrying the process's stderr; neither ends the process: the cycle logs
\* the error, stderr included, as one warning and submits the iteration's
\* sample with the latency absent.
C11_ProbeFailuresReported ==
    (pc = "await_write" /\ probed[1].kind \in {"spawn_err", "exited"}) =>
       LET res == probed[1]
           lat == Last(submitted).metrics.latency_ms
       IN  /\ res.kind = "spawn_err" =>
                 /\ logged = MeasureWarning("Failed to spawn ping command")
                 /\ logged # PingFailedWarning(res.stderr)
                 /\ lat = None
           /\ (res.kind = "exited" /\ res.code # 0) =>
                 /\ logged = PingFailedWarning(res.stderr)
                 /\ logged # MeasureWarning("Failed to spawn ping command")
                 /\ lat = None
           /\ Last(submitted).iteration = iteration
           /\ \A k \in 1..Len(logged) : logged[k].level = "warn"

C11_Witness ==
    /\ pc = "await_write"
    /\ probed = Some(Exited(1, << >>, "unknown host"))
    /\ logged = PingFailedWarning("unknown host")
    /\ Last(submitted).metrics.latency_ms = None

C12_Sleeping ==
    /\ pc = "sleeping" =>
          /\ worker = Idle
          /\ sinkInFlight = 0
          /\ Len(submitted) = iteration
          /\ Last(submitted).result \in {"ok", "err"}
          /\ wakeAt - args.interval >= Last(submitted).metrics.time
          /\ wakeAt - args.interval >= Last(launched).at
          /\ clock \in (wakeAt - args.interval)..wakeAt
    /\ \A n \in 1..(Len(launched) - 1) :
          /\ launched[n + 1].at - launched[n].at >= args.interval
          /\ launched[n + 1].at >= submitted[n].metrics.time + args.interval

C12_Step ==
    /\ (pc # "sleeping" /\ pc' = "sleeping") =>
          /\ pc = "await_write"
          /\ wakeAt' = clock + args.interval
          /\ clock' = clock
    /\ (pc = "sleeping" /\ pc' = "sleeping") => wakeAt' = wakeAt
    /\ (pc = "sleeping" /\ pc' # "sleeping") =>
          /\ clock = wakeAt
          /\ clock' = clock
    /\ (pc = "loop_top" /\ pc' = "await_probe" /\ iteration >= 1) =>
          /\ Last(launched').at = wakeAt
          /\ Last(launched').at - Last(launched).at =
                args.interval + ((wakeAt - args.interval) - Last(launched).at)

\* C12: the sleep starts when the iteration's write has returned (its probe
\* having returned before), lasts exactly the interval whatever time the
\* probe and the write took, and the next iteration starts when it ends: two
\* consecutive iterations start the interval plus the first one's running
\* time apart, never less than the interval.
C12_SleepsFullInterval == []C12_Sleeping /\ [][C12_Step]_vars

C12_Witness ==
    /\ iteration = 2
    /\ pc = "await_probe"
    /\ args.interval = 1
    /\ launched[1].at = 0
    /\ submitted[1].metrics.time = 1
    /\ launched[2].at = 2

C13_Launched ==
    /\ Len(launched) = iteration
    /\ \A k \in 1..Len(launched) :
          /\ launched[k].iteration = k
          /\ launched[k].count = 4
          /\ launched[k].host = args.latency_url
    /\ worker.state # "idle" => pc = "await_probe"

C13_Step ==
    /\ launched' # launched =>
          /\ pc = "loop_top"
          /\ worker = Idle
          /\ Len(launched') = Len(launched) + 1
          /\ \A k \in 1..Len(launched) : launched'[k] = launched[k]
    /\ (pc = "await_probe" /\ worker.state = "finished" /\ worker' # worker) =>
          /\ worker' = Idle
          /\ pc' = "await_write"
          /\ ~MeasureLatency(worker.result[1]).ok =>
                Last(submitted').metrics.latency_ms = None

\* C13: every iteration spawns exactly one ping, with -c 4 and the
\* configured host; when the probe has returned, failed or not, the
\* iteration goes on to its write without another ping: ping runs again
\* only at the top of the loop, in the next iteration.
C13_OneProbePerTick == []C13_Launched /\ [][C13_Step]_vars

C13_Witness ==
    /\ iteration = 2
    /\ pc = "sleeping"
    /\ Len(launched) = 2
    /\ submitted[1].metrics.latency_ms = None
    /\ submitted[2].metrics.latency_ms = None

C14_Times ==
    \A k \in 1..Len(submitted) :
       /\ submitted[k].metrics.time >= launched[k].at
       /\ submitted[k].metrics.time <= clock
       /\ k > 1 => submitted[k].metrics.time >= submitted[k - 1].metrics.time

C14_Step ==
    Len(submitted') # Len(submitted) =>
       /\ worker.state = "finished"
       /\ worker' = Idle
       /\ sinkInFlight = 0
       /\ sinkInFlight' = 1
       /\ Last(submitted').result = "pending"
       /\ Last(submitted').metrics.time = clock
       /\ clock' = clock

\* C14: the sample's time is the clock's reading at the moment the sample
\* is built: the probe has returned, well or not, and the write has not been
\* issued.  So no sample is dated before its iteration started, and the
\* times of the samples submitted never decrease.
C14_TimestampAtBuild == []C14_Times /\ [][C14_Step]_vars

C14_Witness ==
    /\ Len(submitted) = 2
    /\ launched[1].at = 0
    /\ submitted[1].metrics.time = 1
    /\ submitted[1].metrics.latency_ms = None
    /\ launched[2].at = 1
    /\ submitted[2].metrics.time = 1

\* exactly one of the two credentials was given
OneCredential ==
    (args.influxdb_username = None) # (args.influxdb_password = None)

\* C15: once the client is built, it authenticates exactly when both the
\* username and the password were given.  With only one of them the client
\* stays unauthenticated and startup goes on as usual: nothing is logged
\* before the connectivity check returns, the process does not stop, and the
\* loop is entered.
C15_BothOrNeither ==
    /\ pc # "start" =>
          (auth <=> (args.influxdb_username # None /\ args.influxdb_password # None))
    /\ OneCredential =>
          /\ ~auth
          /\ pc \in {"start", "await_ping"} \cup LoopPcs
          /\ pc \in {"start", "await_ping"} => logged = << >>
          /\ pc = "await_ping" => pings.issued = 1

C15_Witness ==
    /\ args.influxdb_username = None
    /\ args.influxdb_password = Some("secret")
    /\ ~auth
    /\ pings.last = "ok"
    /\ iteration = 1
    /\ pc = "await_write"

\* C16: when ping exits with a nonzero status its stdout is not looked at:
\* the latency is absent and the warning is the one of the failed command,
\* even when stdout holds a summary line the parser would accept.  A
\* latency, or one of the parser's two errors, comes only after a zero
\* exit status.
C16_NonzeroExitNotParsed ==
    (pc = "await_write" /\ probed[1].kind = "exited") =>
       LET res == probed[1]
           lat == Last(submitted).metrics.latency_ms
       IN  /\ res.code # 0 =>
                 /\ lat = None
                 /\ logged = PingFailedWarning(res.stderr)
           /\ (\/ lat # None
               \/ logged = MeasureWarning("Failed to parse ping output")
               \/ logged = MeasureWarning(
                              "Failed to parse average latency time as float"))
                 => res.code = 0

C16_Witness ==
    /\ pc = "await_write"
    /\ probed[1].kind = "exited"
    /\ probed[1].code = 1
    /\ probed[1].stdout =
          Render([pre |-> "header", label |-> "rtt", mid |-> "names",
                  a |-> "2", b |-> "15.45", c |-> "3.", d |-> ".5",
                  sp |-> TRUE, post |-> "newline"])
    /\ ParseOutput(probed[1].stdout) = Ok(<<1545, 2>>)
    /\ Last(submitted).metrics.latency_ms = None

C17_WriteBeforeSleep ==
    /\ \A k \in 1..Len(logged) :
          logged[k].level = "error" =>
             logged[k].msg = <<"Failed to write metrics to InfluxDB">>
    /\ pc = "sleeping" =>
          /\ Len(submitted) = iteration
          /\ Last(submitted).iteration = iteration
          /\ Last(submitted).result \in {"ok", "err"}

C17_Step ==
    /\ (pc = "await_probe" /\ pc' # pc) =>
          /\ pc' = "await_write"
          /\ Len(submitted') = Len(submitted) + 1
          /\ Last(submitted').iteration = iteration
          /\ sinkInFlight' = 1
    /\ (pc # "sleeping" /\ pc' = "sleeping") => pc = "await_write"

\* C17: run_measurements never returns an error, so the scheduler's branch
\* for one is never taken: its error is never logged, every measurement
\* that ends is followed by the write of its sample, and the sleep is
\* entered only from a write that has returned.
C17_ErrBranchUnreachable == []C17_WriteBeforeSleep /\ [][C17_Step]_vars

C17_Witness ==
    /\ iteration = 2
    /\ pc = "await_write"
    /\ probed = Some(SpawnFailed)
    /\ sinkInFlight = 1
    /\ submitted[1].result = "ok"
    /\ submitted[1].metrics.latency_ms = None

\* C18 as stated: the counter moves only when an iteration starts, and then
\* by exactly one, without leaving the range of an i32; the start of an
\* iteration always gets past the increment to the probe.
C18_AsStated ==
    [][/\ (pc = "loop_top" /\ pc' # pc) =>
             /\ pc' = "await_probe"
             /\ Len(launched') = Len(launched) + 1
             /\ iteration < I32Max
             /\ iteration' = iteration + 1
             /\ Last(launched').iteration = iteration'
       /\ Len(launched') = Len(launched) => iteration' = iteration]_vars

=============================================================================
